---- MODULE Spec2Model ----
(***************************************************************************)
(* A model of hyperglot's Language class (lib/hyperglot/language.py): a    *)
(* dict of language attributes with an out-of-band iso code, the lookup    *)
(* helpers get_orthography / get_name / get_autonym, the four status       *)
(* predicates and the support check has_support, which optionally prunes   *)
(* the language's orthography list in place.                               *)
(*                                                                         *)
(* A Python dict is a TLA+ function whose DOMAIN is the set of keys that   *)
(* are present, so `"k" in d` is `"k" \in DOMAIN d`.  A call either        *)
(* returns a value, returns the sentinel False, or raises; the three       *)
(* outcomes are kept apart in a small record (Ret, RetFalse, Raise).       *)
(***************************************************************************)
EXTENDS Integers, Sequences, FiniteSets, TLC

VARIABLES self, last

vars == <<self, last>>

(***************************************************************************)
(* Bounds and value universes.                                             *)
(***************************************************************************)
\* longest orthography list a language is constructed with
MaxOrts == 2

\* `script=None` / `orthography=None`
None == "None"

EmptyDict == [k \in {} |-> k]

Isos == {"fra"}

Scripts == {"Latn", "Cyrl"}

ScriptArgs == Scripts \cup {None}

Levels == {"base", "aux"}

Statuses == {"historical", "constructed", "deprecated", "secondary"}

\* textual character specifications, one token per character
SpecA == <<"a">>

SpecE == <<"eacute">>

CharSets == {{"eacute"}, {"a", "e", "acute"}}

(***************************************************************************)
(* Outcomes of a call.                                                     *)
(***************************************************************************)
Ret(v) == [outcome |-> "return", value |-> v]

RetFalse == [outcome |-> "False"]

Raise(e) == [outcome |-> e]

(***************************************************************************)
(* parse.parse_chars, the external character-set parser: the characters    *)
(* of a specification, each precomposed character split into its base      *)
(* letter and combining mark when `decomposed` is set.                     *)
(***************************************************************************)
Decompose(c) == IF c = "eacute" THEN {"e", "acute"} ELSE {c}

parse_chars(spec, decomposed) ==
    IF decomposed
    THEN UNION {Decompose(spec[i]) : i \in DOMAIN spec}
    ELSE {spec[i] : i \in DOMAIN spec}

(***************************************************************************)
(* Language.get_orthography                                                *)
(***************************************************************************)
MinOf(S) == CHOOSE i \in S : \A j \in S : i <= j

\* FirstMatch as it would be if the loop kept the last hit instead of
\* returning at the first
FirstMatch_Last(orts, script) ==
    LET hits == {i \in DOMAIN orts :
                    /\ script # None
                    /\ "script" \in DOMAIN orts[i]
                    /\ orts[i].script = script}
    IN IF hits = {} THEN 0 ELSE CHOOSE i \in hits : \A j \in hits : j <= i

\* the `for o in self["orthographies"]` loop: index of the first hit, 0 if none
FirstMatch(orts, script) ==
    LET hits == {i \in DOMAIN orts :
                    /\ script # None
                    /\ "script" \in DOMAIN orts[i]
                    /\ orts[i].script = script}
    IN IF hits = {} THEN 0 ELSE MinOf(hits)

get_orthography(s, script) ==
    IF "orthographies" \notin DOMAIN s.data THEN RetFalse
    ELSE LET orts == s.data.orthographies
             m == FirstMatch(orts, script)
         IN IF m # 0 THEN Ret(orts[m])
            ELSE IF Len(orts) = 0 THEN Raise("IndexError")
            ELSE Ret(orts[1])

(***************************************************************************)
(* Language.get_name / Language.get_autonym                                *)
(***************************************************************************)
\* `"key" in ort` followed by `ort["key"]` on whatever get_orthography gave
ScopedField(s, script, key) ==
    LET r == get_orthography(s, script)
    IN IF r.outcome = "IndexError" THEN r
       ELSE IF r.outcome = "False" THEN Raise("TypeError")
       ELSE IF key \in DOMAIN r.value THEN Ret(r.value[key])
       ELSE [outcome |-> "fallthrough"]

NameFallback(s, strict) ==
    IF ~strict /\ "preferred_name" \in DOMAIN s.data
    THEN Ret(s.data.preferred_name)
    ELSE IF "name" \in DOMAIN s.data THEN Ret(s.data.name)
    ELSE RetFalse

get_name(s, script, strict) ==
    IF script # None
    THEN LET r == ScopedField(s, script, "name")
         IN IF r.outcome = "fallthrough" THEN NameFallback(s, strict) ELSE r
    ELSE NameFallback(s, strict)

AutonymFallback(s) ==
    IF "autonym" \in DOMAIN s.data THEN Ret(s.data.autonym) ELSE RetFalse

get_autonym(s, script) ==
    IF script # None
    THEN LET r == ScopedField(s, script, "autonym")
         IN IF r.outcome = "fallthrough" THEN AutonymFallback(s) ELSE r
    ELSE AutonymFallback(s)

(***************************************************************************)
(* Language.is_historical / is_constructed / is_deprecated / is_secondary  *)
(* The `orthography` argument is <<>> for None and <<ort>> for a dict.      *)
(***************************************************************************)
HasStatus(s, orthography, status) ==
    \/ "status" \in DOMAIN s.data /\ s.data.status = status
    \/ /\ orthography # <<>>
       /\ "status" \in DOMAIN orthography[1]
       /\ orthography[1].status = status

is_historical(s, orthography) == HasStatus(s, orthography, "historical")

is_constructed(s, orthography) == HasStatus(s, orthography, "constructed")

is_deprecated(s, orthography) == HasStatus(s, orthography, "deprecated")

is_secondary(s, orthography) == HasStatus(s, orthography, "secondary")

(***************************************************************************)
(* Language.has_support                                                    *)
(*                                                                         *)
(* The loop state: the `support` dict, the `pruned` list, the log records  *)
(* emitted so far and the exception that ended the loop ("" while none).   *)
(***************************************************************************)
LoopInit == [support |-> EmptyDict, pruned |-> <<>>, logs |-> <<>>, exc |-> ""]

\* AppendIso as it would be if an iso were listed once per script only
AppendIso_Once(support, script, iso) ==
    IF script \in DOMAIN support
    THEN support
    ELSE support @@ (script :> <<iso>>)

\* support[script].append(iso), creating the list first when needed
AppendIso(support, script, iso) ==
    IF script \in DOMAIN support
    THEN [support EXCEPT ![script] = Append(@, iso)]
    ELSE support @@ (script :> <<iso>>)

\* AuxBranch without its else branch: an orthography with no 'auxiliary'
\* is not marked as supported
AuxBranch_NoElse(s, ort, acc, chars, decomposed) ==
    IF "auxiliary" \in DOMAIN ort
    THEN IF parse_chars(ort.auxiliary, decomposed) \subseteq chars
         THEN [acc EXCEPT !.exc = "TypeError"]
         ELSE acc
    ELSE acc

\* AuxBranch marking the orthography as supported whether or not its
\* auxiliary is covered
AuxBranch_KeepsUncovered(s, ort, acc, chars, decomposed) ==
    IF "auxiliary" \in DOMAIN ort
    THEN IF parse_chars(ort.auxiliary, decomposed) \subseteq chars
         THEN [acc EXCEPT !.exc = "TypeError"]
         ELSE [acc EXCEPT !.pruned = Append(@, ort)]
    ELSE [acc EXCEPT !.pruned = Append(@, ort)]

\* lines 181-194: level == "aux", base already recorded in `acc`.
\* support[script] is a list of isos, so both the item assignment
\* support[script]["auxiliary"] = [] and the item read
\* support[script]["auxiliary"] raise TypeError (list indices must be
\* integers), whichever way the membership test on the list goes.
AuxBranch(s, ort, acc, chars, decomposed) ==
    IF "auxiliary" \in DOMAIN ort
    THEN LET aux == parse_chars(ort.auxiliary, decomposed)
             entry == acc.support[ort.script]
         IN IF aux \subseteq chars
            THEN IF \A i \in DOMAIN entry : entry[i] # "auxiliary"
                 THEN [acc EXCEPT !.exc = "TypeError"]
                 ELSE [acc EXCEPT !.exc = "TypeError"]
            ELSE acc
    ELSE [acc EXCEPT !.pruned = Append(@, ort)]

\* lines 165-194: the checks that need 'base'
BaseBranch(s, ort, acc, chars, level, decomposed) ==
    IF "base" \notin DOMAIN ort THEN acc
    ELSE LET base == parse_chars(ort.base, decomposed)
             rec == [acc EXCEPT !.support = AppendIso(@, ort.script, s.iso)]
         IN IF ~(base \subseteq chars) THEN acc
            ELSE IF level = "base" THEN [rec EXCEPT !.pruned = Append(@, ort)]
            ELSE IF level = "aux"
                 THEN AuxBranch(s, ort, rec, chars, decomposed)
            ELSE rec

\* lines 160-162: a log record, and nothing else
StatusNote(s, ort, acc) ==
    IF is_secondary(s, <<ort>>) \/ is_deprecated(s, <<ort>>)
    THEN [acc EXCEPT !.logs = Append(@, "info")]
    ELSE acc

\* LoopBody without the 'script' guard: reading ort["script"] raises
LoopBody_NoScriptGuard(s, ort, acc, chars, level, decomposed) ==
    IF "script" \notin DOMAIN ort
    THEN [acc EXCEPT !.exc = "KeyError"]
    ELSE BaseBranch(s, ort, StatusNote(s, ort, acc), chars, level, decomposed)

\* LoopBody skipping, as its log message says, a secondary or deprecated
\* orthography
LoopBody_SkipFlagged(s, ort, acc, chars, level, decomposed) ==
    IF "script" \notin DOMAIN ort
    THEN [acc EXCEPT !.logs = Append(@, "warning")]
    ELSE IF is_secondary(s, <<ort>>) \/ is_deprecated(s, <<ort>>)
    THEN StatusNote(s, ort, acc)
    ELSE BaseBranch(s, ort, StatusNote(s, ort, acc), chars, level, decomposed)

\* one iteration of `for ort in self["orthographies"]`
LoopBody(s, ort, acc, chars, level, decomposed) ==
    IF "script" \notin DOMAIN ort
    THEN [acc EXCEPT !.logs = Append(@, "warning")]
    ELSE BaseBranch(s, ort, StatusNote(s, ort, acc), chars, level, decomposed)

RECURSIVE Loop(_, _, _, _, _, _, _)
Loop(s, orts, i, acc, chars, level, decomposed) ==
    IF i > Len(orts) \/ acc.exc # "" THEN acc
    ELSE Loop(s, orts, i + 1,
              LoopBody(s, orts[i], acc, chars, level, decomposed),
              chars, level, decomposed)

\* Prune ignoring the pruneOrthographies flag
Prune_Always(s, pruned, pruneOrthographies) ==
    [s EXCEPT !.data = [@ EXCEPT !["orthographies"] = pruned]]

\* lines 199-200
Prune(s, pruned, pruneOrthographies) ==
    IF pruneOrthographies
    THEN [s EXCEPT !.data = [@ EXCEPT !["orthographies"] = pruned]]
    ELSE s

\* the whole call: its outcome, the language afterwards, the log records
has_support(s, chars, level, decomposed, pruneOrthographies) ==
    IF "orthographies" \notin DOMAIN s.data
    THEN [res |-> Ret(EmptyDict), self |-> s, logs |-> <<>>]
    ELSE LET acc == Loop(s, s.data.orthographies, 1, LoopInit,
                         chars, level, decomposed)
         IN IF acc.exc # ""
            THEN [res |-> Raise(acc.exc), self |-> s, logs |-> acc.logs]
            ELSE [res |-> Ret(acc.support),
                  self |-> Prune(s, acc.pruned, pruneOrthographies),
                  logs |-> acc.logs]

(***************************************************************************)
(* Construction: Language(data, iso).  Families of input data, each        *)
(* varying the fields one group of operations reads: the support check,    *)
(* the name lookup, the autonym lookup, the status predicates.             *)
(***************************************************************************)
Opt(key, Vals) == {EmptyDict} \cup {key :> v : v \in Vals}

\* the non-empty lists of at most n elements of S
SeqsUpTo(S, n) == UNION {[1..k -> S] : k \in 1..n}

Languages(LangData, Orts) ==
    {[iso |-> i, data |-> d @@ o] :
        i \in Isos, d \in LangData,
        o \in Opt("orthographies", SeqsUpTo(Orts, MaxOrts))}

\* with or without a script: no base, a base, a base and an auxiliary
SupportOrts ==
    {s @@ b : s \in Opt("script", Scripts),
              b \in {EmptyDict, "base" :> SpecA, "base" :> SpecE,
                     ("base" :> SpecA) @@ ("auxiliary" :> SpecE)}}

NameOrts ==
    {s @@ ("base" :> SpecA) @@ n :
        s \in Opt("script", {"Latn"}), n \in Opt("name", {"French"})}

NameData ==
    {n @@ p : n \in Opt("name", {"A"}), p \in Opt("preferred_name", {"B"})}

AutonymOrts ==
    {s @@ ("base" :> SpecA) @@ a :
        s \in Opt("script", {"Latn"}), a \in Opt("autonym", {"Francais"})}

StatusOrts ==
    {("script" :> "Latn") @@ b @@ st :
        b \in {"base" :> SpecA, "base" :> SpecE},
        st \in Opt("status", {"deprecated", "secondary"})}

NoCall == [op |-> "init"]

Init ==
    /\ self \in Languages({EmptyDict}, SupportOrts)
    /\ last = NoCall

InitNames ==
    /\ self \in Languages(NameData, NameOrts)
                \cup Languages(Opt("autonym", {"C"}), AutonymOrts)
    /\ last = NoCall

InitStatus ==
    /\ self \in Languages(Opt("status", Statuses), StatusOrts)
    /\ last = NoCall

(***************************************************************************)
(* Operations.  `last` records the most recent call: its arguments, the    *)
(* language it was made on and its outcome.  For has_support it also       *)
(* keeps, in `prior`, the language the call just before was made on, when  *)
(* that was a pruning has_support call with the same chars, level and      *)
(* decomposed (<<>> otherwise).                                            *)
(***************************************************************************)
Prior(chars, level, decomposed) ==
    IF /\ last.op = "has_support"
       /\ last.args.pruneOrthographies
       /\ last.args.chars = chars
       /\ last.args.level = level
       /\ last.args.decomposed = decomposed
    THEN <<last.before>>
    ELSE <<>>

HasSupport ==
    \E chars \in CharSets, level \in Levels,
       decomposed \in BOOLEAN, pruneOrthographies \in BOOLEAN :
        LET c == has_support(self, chars, level, decomposed,
                             pruneOrthographies)
        IN /\ self' = c.self
           /\ last' = [op |-> "has_support",
                       args |-> [chars |-> chars, level |-> level,
                                 decomposed |-> decomposed,
                                 pruneOrthographies |-> pruneOrthographies],
                       before |-> self, res |-> c.res, logs |-> c.logs,
                       prior |-> Prior(chars, level, decomposed)]

GetOrthography ==
    \E script \in ScriptArgs :
        /\ last' = [op |-> "get_orthography", args |-> [script |-> script],
                    before |-> self, res |-> get_orthography(self, script)]
        /\ UNCHANGED self

GetName ==
    \E script \in ScriptArgs, strict \in BOOLEAN :
        /\ last' = [op |-> "get_name",
                    args |-> [script |-> script, strict |-> strict],
                    before |-> self, res |-> get_name(self, script, strict)]
        /\ UNCHANGED self

GetAutonym ==
    \E script \in ScriptArgs :
        /\ last' = [op |-> "get_autonym", args |-> [script |-> script],
                    before |-> self, res |-> get_autonym(self, script)]
        /\ UNCHANGED self

\* the orthography arguments a caller has at hand: None or one of the
\* language's own orthographies, named by its position (0 for None)
OrtArgs ==
    IF "orthographies" \in DOMAIN self.data
    THEN 0..Len(self.data.orthographies) ELSE {0}

OrtArg(i) == IF i = 0 THEN <<>> ELSE <<self.data.orthographies[i]>>

IsHistorical ==
    \E i \in OrtArgs :
        /\ last' = [op |-> "is_historical", args |-> [orthography |-> i],
                    before |-> self, res |-> Ret(is_historical(self, OrtArg(i)))]
        /\ UNCHANGED self

IsConstructed ==
    \E i \in OrtArgs :
        /\ last' = [op |-> "is_constructed", args |-> [orthography |-> i],
                    before |-> self, res |-> Ret(is_constructed(self, OrtArg(i)))]
        /\ UNCHANGED self

IsDeprecated ==
    \E i \in OrtArgs :
        /\ last' = [op |-> "is_deprecated", args |-> [orthography |-> i],
                    before |-> self, res |-> Ret(is_deprecated(self, OrtArg(i)))]
        /\ UNCHANGED self

IsSecondary ==
    \E i \in OrtArgs :
        /\ last' = [op |-> "is_secondary", args |-> [orthography |-> i],
                    before |-> self, res |-> Ret(is_secondary(self, OrtArg(i)))]
        /\ UNCHANGED self

Next ==
    \/ HasSupport
    \/ GetOrthography
    \/ GetName
    \/ GetAutonym
    \/ IsHistorical
    \/ IsConstructed
    \/ IsDeprecated
    \/ IsSecondary

Spec == Init /\ [][Next]_vars

SpecNames == InitNames /\ [][Next]_vars

SpecStatus == InitStatus /\ [][Next]_vars

(***************************************************************************)
(* Vocabulary of the properties.                                           *)
(***************************************************************************)
SupportCall == last.op = "has_support"

HasOrts(s) == "orthographies" \in DOMAIN s.data

HasScript(o) == "script" \in DOMAIN o

BaseCovered(o, chars, decomposed) ==
    /\ "script" \in DOMAIN o
    /\ "base" \in DOMAIN o
    /\ parse_chars(o.base, decomposed) \subseteq chars

AuxCovered(o, chars, decomposed) ==
    /\ "auxiliary" \in DOMAIN o
    /\ parse_chars(o.auxiliary, decomposed) \subseteq chars

\* an orthography that qualifies at `level`, in the words of the algorithm
Qualifies(o, chars, level, decomposed) ==
    /\ BaseCovered(o, chars, decomposed)
    /\ level = "aux" =>
          \/ "auxiliary" \notin DOMAIN o
          \/ AuxCovered(o, chars, decomposed)

Elems(seq) == {seq[i] : i \in DOMAIN seq}

CountScript(orts, script) ==
    Cardinality({i \in DOMAIN orts :
                    HasScript(orts[i]) /\ orts[i].script = script})

\* no orthography whose base is covered carries an 'auxiliary' field
NoAuxOnCovered(s, chars, decomposed) ==
    \A o \in Elems(s.data.orthographies) :
        BaseCovered(o, chars, decomposed) => "auxiliary" \notin DOMAIN o

(***************************************************************************)
(* C1.  has_support with level="aux" on an orthography that has a script,  *)
(* a base within chars and an auxiliary within chars returns normally,     *)
(* lists the iso under that script and keeps the orthography when pruning. *)
(* (The auxiliary list the claim also asks for has no place in the         *)
(* returned dict, whose values are plain lists of isos.)                   *)
(***************************************************************************)
C1_AuxSupportRecorded ==
    (SupportCall /\ last.args.level = "aux" /\ HasOrts(last.before)) =>
        \A o \in Elems(last.before.data.orthographies) :
            (/\ BaseCovered(o, last.args.chars, last.args.decomposed)
             /\ AuxCovered(o, last.args.chars, last.args.decomposed)) =>
                /\ last.res.outcome = "return"
                /\ o.script \in DOMAIN last.res.value
                /\ last.before.iso \in Elems(last.res.value[o.script])
                /\ last.args.pruneOrthographies =>
                      o \in Elems(self.data.orthographies)

(***************************************************************************)
(* C2.  Idempotence of pruning: the second of two consecutive pruning      *)
(* calls returns what a pruning call returns after one non-pruning call    *)
(* on an identical language (same chars, level, decomposed throughout).    *)
(***************************************************************************)
\* the second call of the sequence prune=False, prune=True on language s
SecondAfterUnpruned(s, a) ==
    LET first == has_support(s, a.chars, a.level, a.decomposed, FALSE)
    IN has_support(first.self, a.chars, a.level, a.decomposed, TRUE)

TwoPruningCalls ==
    /\ SupportCall
    /\ last.args.pruneOrthographies
    /\ last.prior # <<>>

C2_PruningIdempotent ==
    TwoPruningCalls =>
        LET other == SecondAfterUnpruned(last.prior[1], last.args)
        IN (last.res.outcome = "return" /\ other.res.outcome = "return") =>
               last.res.value = other.res.value

\* C2 as amended: the same, at level "base", and at level "aux" when no
\* orthography with a covered base defines 'auxiliary'; there both calls
\* return and their results are equal.
C2_PruningIdempotentAmended ==
    (/\ TwoPruningCalls
     /\ HasOrts(last.prior[1])
     /\ \/ last.args.level = "base"
        \/ NoAuxOnCovered(last.prior[1], last.args.chars,
                          last.args.decomposed)) =>
        LET other == SecondAfterUnpruned(last.prior[1], last.args)
        IN /\ last.res.outcome = "return"
           /\ other.res.outcome = "return"
           /\ last.res.value = other.res.value

\* a second pruning call at level "aux", made after the first one removed
\* an orthography and kept one that has no 'auxiliary'
C2_Witness ==
    /\ TwoPruningCalls
    /\ last.args.level = "aux"
    /\ last.res.outcome = "return"
    /\ last.res.value # EmptyDict
    /\ HasOrts(last.prior[1])
    /\ NoAuxOnCovered(last.prior[1], last.args.chars,
                      last.args.decomposed)
    /\ Len(last.prior[1].data.orthographies) > Len(self.data.orthographies)

(***************************************************************************)
(* C3.  get_orthography returns the False sentinel, without raising,       *)
(* whenever the language has no orthographies: key absent, or list empty   *)
(* (for instance emptied by an earlier pruning has_support call).          *)
(***************************************************************************)
C3_NotFoundIsFalse ==
    (/\ last.op = "get_orthography"
     /\ \/ ~HasOrts(last.before)
        \/ last.before.data.orthographies = <<>>) =>
        last.res = RetFalse

(***************************************************************************)
(* C4.  get_name never raises: it returns the scoped name of the           *)
(* orthography the lookup finds when a script is given and that            *)
(* orthography has one, else preferred_name (strict off), else name, else  *)
(* the False sentinel.                                                     *)
(***************************************************************************)
\* the orthography the lookup is specified to find: <<>> when there is none
ClaimedLookup(s, script) ==
    IF ~HasOrts(s) THEN <<>>
    ELSE LET orts == s.data.orthographies
             hits == {i \in DOMAIN orts :
                         HasScript(orts[i]) /\ orts[i].script = script}
         IN IF orts = <<>> THEN <<>>
            ELSE IF hits # {} THEN <<orts[MinOf(hits)]>>
            ELSE <<orts[1]>>

ClaimedName(s, script, strict) ==
    LET found == IF script = None THEN <<>> ELSE ClaimedLookup(s, script)
    IN IF found # <<>> /\ "name" \in DOMAIN found[1] THEN Ret(found[1].name)
       ELSE IF ~strict /\ "preferred_name" \in DOMAIN s.data
            THEN Ret(s.data.preferred_name)
       ELSE IF "name" \in DOMAIN s.data THEN Ret(s.data.name)
       ELSE RetFalse

C4_NameNeverRaises ==
    last.op = "get_name" =>
        last.res = ClaimedName(last.before, last.args.script, last.args.strict)

(***************************************************************************)
(* C5.  An orthography without 'script' adds nothing to the result of      *)
(* has_support, is never kept by pruning, and does not disturb the         *)
(* evaluation of the other orthographies: the call ends as it would on    *)
(* the language with the script-less orthographies taken out.              *)
(***************************************************************************)
WithoutScriptless(s) ==
    [s EXCEPT !.data =
        [@ EXCEPT !["orthographies"] = SelectSeq(@, HasScript)]]

C5_ScriptlessIgnored ==
    (SupportCall /\ HasOrts(last.before)) =>
        LET a == last.args
            c == has_support(WithoutScriptless(last.before), a.chars, a.level,
                             a.decomposed, a.pruneOrthographies)
        IN /\ last.res = c.res
           /\ (last.res.outcome = "return" /\ a.pruneOrthographies) =>
                 /\ self.data.orthographies = c.self.data.orthographies
                 /\ \A o \in Elems(self.data.orthographies) : HasScript(o)

\* a pruning call that returned on a list whose first orthography has no
\* script but a covered base, and whose second orthography was kept
C5_Witness ==
    /\ SupportCall
    /\ last.res.outcome = "return"
    /\ last.args.pruneOrthographies
    /\ HasOrts(last.before)
    /\ Len(last.before.data.orthographies) >= 2
    /\ LET o == last.before.data.orthographies[1]
       IN /\ ~HasScript(o)
          /\ "base" \in DOMAIN o
          /\ parse_chars(o.base, last.args.decomposed) \subseteq last.args.chars
    /\ self.data.orthographies = <<last.before.data.orthographies[2]>>

(***************************************************************************)
(* C6.  After a pruning has_support call that returns, the orthography     *)
(* list is exactly the subsequence, in the original order, of the          *)
(* orthographies that qualify at the requested level.                      *)
(***************************************************************************)
C6_PrunedIsQualifyingSubsequence ==
    (/\ SupportCall
     /\ last.res.outcome = "return"
     /\ last.args.pruneOrthographies
     /\ HasOrts(last.before)) =>
        LET Q(o) == Qualifies(o, last.args.chars, last.args.level,
                              last.args.decomposed)
        IN self.data.orthographies =
               SelectSeq(last.before.data.orthographies, Q)

\* level "aux": the first orthography, whose auxiliary is not covered, was
\* removed and the second, which has no auxiliary, was kept
C6_Witness ==
    /\ SupportCall
    /\ last.res.outcome = "return"
    /\ last.args.pruneOrthographies
    /\ last.args.level = "aux"
    /\ HasOrts(last.before)
    /\ Len(last.before.data.orthographies) = 2
    /\ LET o == last.before.data.orthographies
       IN /\ BaseCovered(o[1], last.args.chars, last.args.decomposed)
          /\ "auxiliary" \in DOMAIN o[1]
          /\ "auxiliary" \notin DOMAIN o[2]
          /\ self.data.orthographies = <<o[2]>>

(***************************************************************************)
(* C7.  Frame: a call changes nothing but the orthography list, and that   *)
(* only in has_support with pruneOrthographies on a language that has the  *)
(* key; without the key has_support returns the empty mapping.             *)
(***************************************************************************)
C7_Frame ==
    last.op # "init" =>
        /\ self.iso = last.before.iso
        /\ DOMAIN self.data = DOMAIN last.before.data
        /\ \A k \in DOMAIN self.data \ {"orthographies"} :
               self.data[k] = last.before.data[k]
        /\ (\/ ~SupportCall
            \/ ~last.args.pruneOrthographies
            \/ ~HasOrts(last.before)) => self = last.before
        /\ (SupportCall /\ ~HasOrts(last.before)) =>
               last.res = Ret(EmptyDict)

\* a non-pruning call that left in place an orthography it found unsupported
C7_Witness ==
    /\ SupportCall
    /\ ~last.args.pruneOrthographies
    /\ last.res = Ret(EmptyDict)
    /\ HasOrts(self)
    /\ self.data.orthographies # <<>>
    /\ \E k \in {"name", "preferred_name", "autonym"} : k \in DOMAIN self.data
    /\ self = last.before

(***************************************************************************)
(* C8.  Status does not influence support: has_support ends the same way   *)
(* and keeps the same orthographies whatever the language-level and        *)
(* orthography-level status values are; a secondary or deprecated          *)
(* orthography with a covered base is recorded and survives pruning.       *)
(***************************************************************************)
DropKey(d, key) == [k \in DOMAIN d \ {key} |-> d[k]]

\* the language with every status value, at both levels, taken out
StripStatus(s) ==
    LET d == DropKey(s.data, "status")
    IN [s EXCEPT !.data =
           IF "orthographies" \in DOMAIN d
           THEN [d EXCEPT !["orthographies"] =
                    [i \in DOMAIN @ |-> DropKey(@[i], "status")]]
           ELSE d]

Flagged(s, o) == is_secondary(s, <<o>>) \/ is_deprecated(s, <<o>>)

Listed(result, script) ==
    IF script \in DOMAIN result THEN Len(result[script]) ELSE 0

ResultMatchesSurvivors ==
    /\ \A sc \in DOMAIN last.res.value :
          /\ CountScript(self.data.orthographies, sc) >= 1
          /\ get_orthography(self, sc).outcome = "return"
          /\ HasScript(get_orthography(self, sc).value)
          /\ get_orthography(self, sc).value.script = sc
    /\ \A sc \in Scripts :
          Listed(last.res.value, sc) = CountScript(self.data.orthographies, sc)

PruningCallReturned ==
    /\ SupportCall
    /\ last.res.outcome = "return"
    /\ last.args.pruneOrthographies
    /\ HasOrts(last.before)

C9_ResultAgreesWithPruned == PruningCallReturned => ResultMatchesSurvivors

\* C9 as amended: the same at level "base", and at level "aux" when no
\* orthography with a covered base defines 'auxiliary'.
C9_ResultAgreesWithPrunedAmended ==
    (/\ PruningCallReturned
     /\ \/ last.args.level = "base"
        \/ NoAuxOnCovered(last.before, last.args.chars,
                          last.args.decomposed)) =>
        ResultMatchesSurvivors

\* two orthographies of one script both survived, the iso is listed twice
C9_Witness ==
    /\ PruningCallReturned
    /\ \E sc \in DOMAIN last.res.value :
          /\ Len(last.res.value[sc]) = 2
          /\ CountScript(self.data.orthographies, sc) = 2

(***************************************************************************)
(* C10.  A script-scoped name or autonym is never taken from another       *)
(* script: get_name(script=s) / get_autonym(script=s) returns the field of *)
(* an orthography whose script is s, or the language-level value, or the   *)
(* False sentinel.                                                         *)
(***************************************************************************)
ScopedCall ==
    /\ last.op \in {"get_name", "get_autonym"}
    /\ last.args.script # None
    /\ last.res.outcome = "return"

ScopedKey == IF last.op = "get_name" THEN "name" ELSE "autonym"

LanguageLevel ==
    LET keys == IF last.op = "get_name" THEN {"name", "preferred_name"}
                ELSE {"autonym"}
    IN {last.before.data[k] : k \in keys \cap DOMAIN last.before.data}

C10_NoForeignScript ==
    ScopedCall =>
        last.res.value \in
            LanguageLevel \cup
            {o[ScopedKey] : o \in {p \in Elems(last.before.data.orthographies) :
                                      /\ HasScript(p)
                                      /\ p.script = last.args.script
                                      /\ ScopedKey \in DOMAIN p}}

\* C10 as amended: the value is the field of the first orthography whose
\* script is s or, when no orthography has script s, of the first
\* orthography of the list; or the language-level value.
C10_NoForeignScriptAmended ==
    ScopedCall =>
        LET orts == last.before.data.orthographies
            hits == {i \in DOMAIN orts :
                        HasScript(orts[i]) /\ orts[i].script = last.args.script}
            o == IF hits # {} THEN orts[MinOf(hits)] ELSE orts[1]
        IN last.res.value \in
               LanguageLevel \cup
               (IF ScopedKey \in DOMAIN o THEN {o[ScopedKey]} ELSE {})

\* get_name for a script no orthography has returned the name of the first
\* orthography, although a later orthography of another script has none
C10_Witness ==
    /\ last.op = "get_name"
    /\ last.args.script = "Cyrl"
    /\ HasOrts(last.before)
    /\ Len(last.before.data.orthographies) = 2
    /\ last.res = Ret("French")
    /\ "name" \notin DOMAIN last.before.data.orthographies[2]
====
